---- MODULE Spec2Model ----
(***************************************************************************)
(* Model of NM_RobotControl.py: a Controller that validates a scenario     *)
(* file, builds two Robot sessions, sends them their commands one loop     *)
(* iteration at a time, and plans trajectories for plotting.               *)
(*                                                                         *)
(* Vectors are pairs <<x, y>>.  Python index k of an array is index k+1    *)
(* of the sequence that models it.  plan_traj fills float64 arrays; every  *)
(* value it stores is a small integer, which float64 holds exactly, so the *)
(* entries are modelled as integers.                                       *)
(***************************************************************************)
EXTENDS Integers, Sequences, FiniteSets, TLC

\* ------------------------------------------------------------------ bounds
\* Longest command line of a drawn scenario file.
MaxLen == 2

\* ------------------------------------------------------- program constants
\* A matrix that mirrors instead of turning: applied twice it is the identity.
rotMatCCW_mirror == << <<0, 1>>, <<1, 0>> >>
rotMatCCW == << <<0, -1>>, <<1, 0>> >>
\* The clockwise matrix written with the signs of the counterclockwise one.
rotMatCW_signs == << <<0, -1>>, <<1, 0>> >>
rotMatCW == << <<0, 1>>, <<-1, 0>> >>

\* Python's None, as returned by a function that falls off its last elif.
None == <<>>

\* dot with v[0] used twice in the first row.
dot_slip(m, v) ==
  << m[1][1] * v[1] + m[1][2] * v[1], m[2][1] * v[1] + m[2][2] * v[2] >>

\* np.dot of a 2x2 matrix and a 2-vector.
dot(m, v) ==
  << m[1][1] * v[1] + m[1][2] * v[2], m[2][1] * v[1] + m[2][2] * v[2] >>

\* ------------------------------------------------------ orientation codec
\* orivec2char with the letters of E and W exchanged.
orivec2char_EW(vecOri) ==
  IF vecOri = <<0, 1>> THEN "N"
  ELSE IF vecOri = <<1, 0>> THEN "W"
  ELSE IF vecOri = <<0, -1>> THEN "S"
  ELSE IF vecOri = <<-1, 0>> THEN "E"
  ELSE "None"

orivec2char(vecOri) ==
  IF vecOri = <<0, 1>> THEN "N"
  ELSE IF vecOri = <<1, 0>> THEN "E"
  ELSE IF vecOri = <<0, -1>> THEN "S"
  ELSE IF vecOri = <<-1, 0>> THEN "W"
  ELSE "None"

orichar2vec(chOri) ==
  IF chOri = "N" THEN <<0, 1>>
  ELSE IF chOri = "E" THEN <<1, 0>>
  ELSE IF chOri = "S" THEN <<0, -1>>
  ELSE IF chOri = "W" THEN <<-1, 0>>
  ELSE None

\* ------------------------------------------------------------- plan_traj
\* np.zeros([n, 2])
zeros(n) == [k \in 1..n |-> <<0, 0>>]

\* The loop of plan_traj over range(0, len(arrCmd) - 1): the last command is
\* never applied.
RECURSIVE plan_loop_short(_, _, _, _)
plan_loop_short(arrPos, arrOri, arrCmd, i) ==
  IF i >= Len(arrCmd) - 1 THEN [pos |-> arrPos, ori |-> arrOri]
  ELSE IF arrCmd[i + 1] = "L" THEN
    plan_loop_short([arrPos EXCEPT ![i + 2] = arrPos[i + 1]],
                    [arrOri EXCEPT ![i + 2] = dot(rotMatCCW, arrOri[i + 1])],
                    arrCmd, i + 1)
  ELSE IF arrCmd[i + 1] = "R" THEN
    plan_loop_short([arrPos EXCEPT ![i + 2] = arrPos[i + 1]],
                    [arrOri EXCEPT ![i + 2] = dot(rotMatCW, arrOri[i + 1])],
                    arrCmd, i + 1)
  ELSE
    plan_loop_short([arrPos EXCEPT ![i + 2] = << arrPos[i + 1][1] + arrOri[i + 1][1],
                                                 arrPos[i + 1][2] + arrOri[i + 1][2] >>],
                    [arrOri EXCEPT ![i + 2] = arrOri[i + 1]],
                    arrCmd, i + 1)

\* The for loop of plan_traj, from Python index i on.
RECURSIVE plan_loop(_, _, _, _)
plan_loop(arrPos, arrOri, arrCmd, i) ==
  IF i >= Len(arrCmd) THEN [pos |-> arrPos, ori |-> arrOri]
  ELSE IF arrCmd[i + 1] = "L" THEN
    plan_loop([arrPos EXCEPT ![i + 2] = arrPos[i + 1]],
              [arrOri EXCEPT ![i + 2] = dot(rotMatCCW, arrOri[i + 1])],
              arrCmd, i + 1)
  ELSE IF arrCmd[i + 1] = "R" THEN
    plan_loop([arrPos EXCEPT ![i + 2] = arrPos[i + 1]],
              [arrOri EXCEPT ![i + 2] = dot(rotMatCW, arrOri[i + 1])],
              arrCmd, i + 1)
  ELSE
    plan_loop([arrPos EXCEPT ![i + 2] = << arrPos[i + 1][1] + arrOri[i + 1][1],
                                           arrPos[i + 1][2] + arrOri[i + 1][2] >>],
              [arrOri EXCEPT ![i + 2] = arrOri[i + 1]],
              arrCmd, i + 1)

\* plan_traj without `arrOri[0, :] = startOri`.
plan_traj_nostart(startPos, startOri, arrCmd) ==
  plan_loop([zeros(Len(arrCmd) + 1) EXCEPT ![1] = startPos],
            zeros(Len(arrCmd) + 1),
            arrCmd, 0)

plan_traj(startPos, startOri, arrCmd) ==
  plan_loop([zeros(Len(arrCmd) + 1) EXCEPT ![1] = startPos],
            [zeros(Len(arrCmd) + 1) EXCEPT ![1] = startOri],
            arrCmd, 0)

\* ------------------------------------------------------------ validators
\* is_on_table with the upper ends excluded.
is_on_table_open(pos, tableSize) ==
  (pos[1] < tableSize[1]) /\ (pos[2] < tableSize[2])
    /\ (pos[1] >= 0) /\ (pos[2] >= 0)

is_on_table(pos, tableSize) ==
  (pos[1] <= tableSize[1]) /\ (pos[2] <= tableSize[2])
    /\ (pos[1] >= 0) /\ (pos[2] >= 0)

is_no_collisions(arrPos1, arrPos2) == TRUE

\* The unfinished command check: `return True`.
is_cmdin_valid(cmd) == TRUE

\* The messages is_input_valid prints before it returns False.
MsgOff1 == "Robot 1 goes off the table. Aborting..."
MsgOff2 == "Robot 2 goes off the table. Aborting..."
MsgCollision == "The input commands result in a collision of the two robots. Aborting..."

\* What a line printed by is_input_valid tells its reader: the number of the
\* robot for the two off-table lines, nothing for the collision line.  No
\* line carries a step index, and the return value is the bare False.
Report(m) ==
  IF m = MsgOff1 THEN [robot |-> 1]
  ELSE IF m = MsgOff2 THEN [robot |-> 2]
  ELSE <<>>

\* A parsed input file f: [tableSize, start1, start2, cmd1, cmd2], a start
\* being <<x, y, orientation char>>.
is_input_valid(f) ==
  LET p1 == plan_traj(<<f.start1[1], f.start1[2]>>, orichar2vec(f.start1[3]), f.cmd1)
      p2 == plan_traj(<<f.start2[1], f.start2[2]>>, orichar2vec(f.start2[3]), f.cmd2)
  IN  IF \E k \in 1..Len(p1.pos) : ~is_on_table(p1.pos[k], f.tableSize)
        THEN [ret |-> FALSE, msg |-> MsgOff1, p1 |-> p1, p2 |-> p2]
      ELSE IF \E k \in 1..Len(p2.pos) : ~is_on_table(p2.pos[k], f.tableSize)
        THEN [ret |-> FALSE, msg |-> MsgOff2, p1 |-> p1, p2 |-> p2]
      ELSE IF ~is_no_collisions(p1.pos, p2.pos)
        THEN [ret |-> FALSE, msg |-> MsgCollision, p1 |-> p1, p2 |-> p2]
      ELSE [ret |-> TRUE, msg |-> "", p1 |-> p1, p2 |-> p2]

\* ------------------------------------------------------------------ Robot
\* Robot.__init__
Robot(startPos) ==
  [pos |-> <<startPos[1], startPos[2]>>, ori |-> orichar2vec(startPos[3])]

\* move that stops at the lower edges of the table.
move_clamped(self) ==
  [self EXCEPT !.pos =
     << IF self.pos[1] + self.ori[1] < 0 THEN 0 ELSE self.pos[1] + self.ori[1],
        IF self.pos[2] + self.ori[2] < 0 THEN 0 ELSE self.pos[2] + self.ori[2] >>]

\* move stepping two cells.
move_twice(self) ==
  [self EXCEPT !.pos = <<self.pos[1] + 2 * self.ori[1], self.pos[2] + 2 * self.ori[2]>>]

move(self) ==
  [self EXCEPT !.pos = <<self.pos[1] + self.ori[1], self.pos[2] + self.ori[2]>>]

\* rotate with the two matrices exchanged.
rotate_swapped(self, strRot) ==
  IF strRot = "L" THEN [self EXCEPT !.ori = dot(rotMatCW, self.ori)]
  ELSE [self EXCEPT !.ori = dot(rotMatCCW, self.ori)]

rotate(self, strRot) ==
  IF strRot = "L" THEN [self EXCEPT !.ori = dot(rotMatCCW, self.ori)]
  ELSE [self EXCEPT !.ori = dot(rotMatCW, self.ori)]

\* receive_cmd that takes only L for a rotation.
receive_cmd_Lonly(self, strCmd) ==
  IF strCmd = "L" THEN rotate(self, strCmd) ELSE move(self)

\* receive_cmd that leaves the robot alone on a command it does not know.
receive_cmd_strict(self, strCmd) ==
  IF strCmd = "L" \/ strCmd = "R" THEN rotate(self, strCmd)
  ELSE IF strCmd = "M" THEN move(self)
  ELSE self

\* The robot after receive_cmd.
receive_cmd(self, strCmd) ==
  IF strCmd = "L" \/ strCmd = "R" THEN rotate(self, strCmd) ELSE move(self)

\* What receive_cmd returns: `return True # always successful`.
receive_cmd_ret(self, strCmd) == TRUE

\* ----------------------------------------------------------- input files
Tokens == {"L", "R", "M"}

RECURSIVE SeqsUpTo(_, _)
SeqsUpTo(S, n) ==
  IF n = 0 THEN {<<>>}
  ELSE LET shorter == SeqsUpTo(S, n - 1)
       IN  shorter \cup {Append(s, t) : s \in {q \in shorter : Len(q) = n - 1}, t \in S}

CmdLines == SeqsUpTo(Tokens, MaxLen)
OriChars == {"N", "E", "S", "W"}
TableLines == {<<2, 1>>}
\* On a 2 x 1 table a robot at these cells leaves the table on any side, or
\* meets the other robot, within MaxLen commands.
StartCells1 == {<<0, 0>>, <<1, 1>>}
StartCells2 == {<<1, 1>>}
StartLines1 == {<<c[1], c[2], o>> : c \in StartCells1, o \in OriChars}
\* Robot 2 starts facing E, as in the reference input; robot 1 on any side.
StartLines2 == {<<c[1], c[2], "E">> : c \in StartCells2}

\* The reference input: table 5 5, robot 1 at 1 2 N, robot 2 at 3 3 E.
RefCmd1 == <<"L", "M", "L", "M", "L", "M", "L", "M", "M">>
RefCmd2 == <<"M", "M", "R", "M", "M", "R", "M", "R", "R", "M">>
RefFile ==
  [tableSize |-> <<5, 5>>, start1 |-> <<1, 2, "N">>, start2 |-> <<3, 3, "E">>,
   cmd1 |-> RefCmd1, cmd2 |-> RefCmd2]

\* Table 5 5 with robot 1 at 0 0 S told to move once.
SouthFile ==
  [tableSize |-> <<5, 5>>, start1 |-> <<0, 0, "S">>, start2 |-> <<3, 3, "E">>,
   cmd1 |-> <<"M">>, cmd2 |-> <<>>]

\* Four left turns for robot 1, four right turns for robot 2.
SpinFile ==
  [tableSize |-> <<2, 1>>, start1 |-> <<0, 0, "N">>, start2 |-> <<1, 1, "E">>,
   cmd1 |-> <<"L", "L", "L", "L">>, cmd2 |-> <<"R", "R", "R", "R">>]

\* Out, half a turn, and back: to the left for robot 1, to the right for robot 2.
BackFile ==
  [tableSize |-> <<2, 1>>, start1 |-> <<0, 0, "N">>, start2 |-> <<1, 1, "E">>,
   cmd1 |-> <<"M", "L", "L", "M">>, cmd2 |-> <<"M", "R", "R", "M">>]

\* A file whose command lines hold tokens other than L, R and M.
OddFile ==
  [tableSize |-> <<2, 1>>, start1 |-> <<0, 0, "E">>, start2 |-> <<1, 1, "S">>,
   cmd1 |-> <<"X", "LM">>, cmd2 |-> <<"m", "R">>]

Files ==
  [tableSize : TableLines, start1 : StartLines1, start2 : StartLines2,
   cmd1 : CmdLines, cmd2 : CmdLines]
    \cup {RefFile, SouthFile, SpinFile, BackFile, OddFile}

\* ------------------------------------------------------------------ state
VARIABLES
  pc,       \* position of __main__: "validate", "construct", "send", "plan", "end", "open", "done"
  block,    \* which of the three blocks of __main__ is running
  file,     \* parsed contents of the scenario file the block reads
  valid,    \* what is_input_valid returned for that file: "none", "True", "False"
  msg,      \* the message is_input_valid printed before returning False
  vplan1,   \* [pos1, ori1] as planned inside is_input_valid
  vplan2,   \* [pos2, ori2] as planned inside is_input_valid
  ctrl,     \* the Controller: [tableSize, cmd1, cmd2]
  robot1,   \* ctrl's robot1: [pos, ori]
  robot2,   \* ctrl's robot2: [pos, ori]
  i,        \* loop index of send_command
  turn,     \* which robot the running iteration of send_command serves next
  log,      \* the receive_cmd calls made so far by send_command: <<robot, command>>
  plan1,    \* [pos, ori] that __main__ plans from cmd1 for plotting
  plan2,    \* [pos, ori] that __main__ plans from cmd2 for plotting
  probe     \* the last call of a codec function made on the imported module

vars ==
  << pc, block, file, valid, msg, vplan1, vplan2, ctrl, robot1, robot2,
     i, turn, log, plan1, plan2, probe >>

NoTraj == [pos |-> <<>>, ori |-> <<>>]
NoRobot == [pos |-> None, ori |-> None]
NoCtrl == [tableSize |-> None, cmd1 |-> <<>>, cmd2 |-> <<>>]
NoCall == [fn |-> "none", arg |-> None, outcome |-> "none", value |-> None]
NoFile == [tableSize |-> None, start1 |-> None, start2 |-> None, cmd1 |-> <<>>, cmd2 |-> <<>>]

\* __main__ opens testscen1.txt in block 1 and testscen2.txt in blocks 2 and 3.
\* A file's contents are drawn when the file is first opened.
Init ==
  /\ pc = "validate"
  /\ block = 1
  /\ file \in Files
  /\ valid = "none"
  /\ msg = ""
  /\ vplan1 = NoTraj
  /\ vplan2 = NoTraj
  /\ ctrl = NoCtrl
  /\ robot1 = NoRobot
  /\ robot2 = NoRobot
  /\ i = 0
  /\ turn = 1
  /\ log = <<>>
  /\ plan1 = NoTraj
  /\ plan2 = NoTraj
  /\ probe = NoCall

\* `if Controller.is_input_valid(...)` of blocks 1 and 2.
Validate ==
  /\ UNCHANGED probe
  /\ pc = "validate"
  /\ LET r == is_input_valid(file)
     IN  /\ valid' = (IF r.ret THEN "True" ELSE "False")
         /\ msg' = r.msg
         /\ vplan1' = r.p1
         /\ vplan2' = r.p2
         /\ pc' = (IF r.ret THEN "construct" ELSE "end")
  /\ UNCHANGED << block, file, ctrl, robot1, robot2, i, turn, log, plan1, plan2 >>

\* Controller(inPath), print_posori(), and the entry of send_command up to
\* its loop.
Construct ==
  /\ UNCHANGED probe
  /\ pc = "construct"
  /\ ctrl' = [tableSize |-> file.tableSize, cmd1 |-> file.cmd1, cmd2 |-> file.cmd2]
  /\ robot1' = Robot(file.start1)
  /\ robot2' = Robot(file.start2)
  /\ i' = 0
  /\ turn' = 1
  /\ log' = <<>>
  /\ pc' = "send"
  /\ UNCHANGED << block, file, valid, msg, vplan1, vplan2, plan1, plan2 >>

\* newlen of send_command
newlen(c) == IF Len(c.cmd1) >= Len(c.cmd2) THEN Len(c.cmd1) ELSE Len(c.cmd2)

\* Storing a token in an array of dtype '<U1' keeps its first character.
U1(tok) == SubSeq(tok, 1, 1)

\* What a slot of np.empty(newlen, dtype=str) that was never assigned reads
\* as: the empty string, or whatever character the memory held.  A character
\* other than L and R acts on the robot as M does.
Garbage == {"", "L", "R", "M"}

\* The values cmd[i] of the padded local array of send_command can take.
padded(cmd, k) == IF k < Len(cmd) THEN {U1(cmd[k + 1])} ELSE Garbage

\* First half of a loop iteration: `if cmd1[i]: self.robot1.receive_cmd(cmd1[i])`.
SendRobot1 ==
  /\ UNCHANGED probe
  /\ pc = "send"
  /\ turn = 1
  /\ i < newlen(ctrl)
  /\ \E c \in padded(ctrl.cmd1, i) :
       IF c # ""
         THEN /\ robot1' = receive_cmd(robot1, c)
              /\ log' = Append(log, <<1, c>>)
         ELSE UNCHANGED << robot1, log >>
  /\ turn' = 2
  /\ UNCHANGED << pc, block, file, valid, msg, vplan1, vplan2, ctrl, robot2, i,
                  plan1, plan2 >>

\* Second half: `if cmd2[i]: self.robot2.receive_cmd(cmd2[i])`.
SendRobot2 ==
  /\ UNCHANGED probe
  /\ pc = "send"
  /\ turn = 2
  /\ \E c \in padded(ctrl.cmd2, i) :
       IF c # ""
         THEN /\ robot2' = receive_cmd(robot2, c)
              /\ log' = Append(log, <<2, c>>)
         ELSE UNCHANGED << robot2, log >>
  /\ turn' = 1
  /\ i' = i + 1
  /\ UNCHANGED << pc, block, file, valid, msg, vplan1, vplan2, ctrl, robot1,
                  plan1, plan2 >>

\* The loop of send_command is over: `return True`, then print_posori().
SendReturn ==
  /\ UNCHANGED probe
  /\ pc = "send"
  /\ turn = 1
  /\ i >= newlen(ctrl)
  /\ pc' = "plan"
  /\ UNCHANGED << block, file, valid, msg, vplan1, vplan2, ctrl, robot1, robot2,
                  i, turn, log, plan1, plan2 >>

\* The start poses __main__ hands to plan_traj are written into the program.
MainStart1(b) == IF b = 1 THEN [pos |-> <<1, 2>>, ori |-> <<0, 1>>]
                 ELSE [pos |-> <<0, 2>>, ori |-> <<0, -1>>]
MainStart2(b) == [pos |-> <<3, 3>>, ori |-> <<1, 0>>]

\* The two plan_traj calls of a block (plot_traj draws and changes nothing).
PlanPlot ==
  /\ UNCHANGED probe
  /\ pc = "plan"
  /\ plan1' = plan_traj(MainStart1(block).pos, MainStart1(block).ori, ctrl.cmd1)
  /\ plan2' = plan_traj(MainStart2(block).pos, MainStart2(block).ori, ctrl.cmd2)
  /\ pc' = "end"
  /\ UNCHANGED << block, file, valid, msg, vplan1, vplan2, ctrl, robot1, robot2,
                  i, turn, log >>

\* A block of __main__ is over: nothing of it but the outcome of the
\* validation is used again, and of block 1 not even that.
EndBlock ==
  /\ UNCHANGED probe
  /\ pc = "end"
  /\ pc' = "open"
  /\ IF block = 1
       THEN file' = NoFile /\ valid' = "none"
       ELSE UNCHANGED << file, valid >>
  /\ msg' = ""
  /\ vplan1' = NoTraj
  /\ vplan2' = NoTraj
  /\ ctrl' = NoCtrl
  /\ robot1' = NoRobot
  /\ robot2' = NoRobot
  /\ i' = 0
  /\ turn' = 1
  /\ log' = <<>>
  /\ plan1' = NoTraj
  /\ plan2' = NoTraj
  /\ UNCHANGED block

\* __main__ moves on: block 2 validates testscen2.txt, block 3 constructs a
\* Controller from the same file without asking is_input_valid.
NextBlock ==
  /\ UNCHANGED probe
  /\ pc = "open"
  /\ \/ /\ block = 1
        /\ block' = 2
        /\ file' \in Files
        /\ pc' = "validate"
     \/ /\ block = 2
        /\ block' = 3
        /\ UNCHANGED file
        /\ pc' = "construct"
     \/ /\ block = 3
        /\ UNCHANGED << block, file >>
        /\ pc' = "done"
  /\ UNCHANGED << valid, msg, vplan1, vplan2, ctrl, robot1, robot2, i, turn, log,
                  plan1, plan2 >>

Next ==
  \/ Validate
  \/ Construct
  \/ SendRobot1
  \/ SendRobot2
  \/ SendReturn
  \/ PlanPlot
  \/ EndBlock
  \/ NextBlock

Spec == Init /\ [][Next]_vars

\* ------------------------------------------- the module used as a library
\* Imported, the module runs nothing (`if __name__ == '__main__'` is false);
\* its static functions are then called one at a time.
MaxVec == 5
CodecChars == OriChars \cup {"X", "n", ""}
CodecVecs == {<<x, y>> : x \in (0 - MaxVec)..MaxVec, y \in (0 - MaxVec)..MaxVec} \cup {None}

InitCodec ==
  /\ pc = "import"
  /\ block = 0
  /\ file = NoFile
  /\ valid = "none"
  /\ msg = ""
  /\ vplan1 = NoTraj
  /\ vplan2 = NoTraj
  /\ ctrl = NoCtrl
  /\ robot1 = NoRobot
  /\ robot2 = NoRobot
  /\ i = 0
  /\ turn = 1
  /\ log = <<>>
  /\ plan1 = NoTraj
  /\ plan2 = NoTraj
  /\ probe = NoCall

\* Neither function has a raise statement or a final else: whatever the
\* argument, the call returns, with None when no branch matched.
CallOrichar2vec ==
  /\ pc = "import"
  /\ \E ch \in CodecChars :
       probe' = [fn |-> "orichar2vec", arg |-> ch, outcome |-> "return",
                value |-> orichar2vec(ch)]
  /\ UNCHANGED << pc, block, file, valid, msg, vplan1, vplan2, ctrl, robot1, robot2,
                  i, turn, log, plan1, plan2 >>

CallOrivec2char ==
  /\ pc = "import"
  /\ \E v \in CodecVecs :
       probe' = [fn |-> "orivec2char", arg |-> v, outcome |-> "return",
                value |-> orivec2char(v)]
  /\ UNCHANGED << pc, block, file, valid, msg, vplan1, vplan2, ctrl, robot1, robot2,
                  i, turn, log, plan1, plan2 >>

NextCodec ==
  \/ CallOrichar2vec
  \/ CallOrivec2char

SpecCodec == InitCodec /\ [][NextCodec]_vars

\* ----------------------------------------------------- what the claims use
OriN == <<0, 1>>
OriE == <<1, 0>>
OriS == <<0, -1>>
OriW == <<-1, 0>>

\* A position lies in the closed rectangle [0, width] x [0, height].
InBounds(p, t) == 0 <= p[1] /\ p[1] <= t[1] /\ 0 <= p[2] /\ p[2] <= t[2]

Min(a, b) == IF a <= b THEN a ELSE b

\* Two position sequences hold the same position at the same index.
MeetAtSameStep(a, b) == \E k \in 1..Min(Len(a), Len(b)) : a[k] = b[k]

\* is_input_valid has run on the file of this block.
Validated == valid # "none" /\ vplan1 # NoTraj

\* ----------------------------------------------------------------- C1
\* C1: is_no_collisions returns true exactly when the two trajectories hold
\* no common position at a common step index.  Stated of the trajectories
\* is_input_valid planned; the code's is_no_collisions returns True always.
C1_NoCollisionIffNeverMeet ==
  Validated =>
    (is_no_collisions(vplan1.pos, vplan2.pos) <=> ~MeetAtSameStep(vplan1.pos, vplan2.pos))

\* ----------------------------------------------------------------- C2
\* C2: validation succeeds exactly when robot 1's trajectory stays in bounds,
\* robot 2's stays in bounds and the two never meet at the same step; a
\* failure reports the first failed check in the order bounds of robot 1,
\* bounds of robot 2, collision.
C2_ValidIffAllChecksPass ==
  Validated =>
    LET in1 == \A k \in 1..Len(vplan1.pos) : InBounds(vplan1.pos[k], file.tableSize)
        in2 == \A k \in 1..Len(vplan2.pos) : InBounds(vplan2.pos[k], file.tableSize)
        apart == ~MeetAtSameStep(vplan1.pos, vplan2.pos)
    IN  /\ (valid = "True") <=> (in1 /\ in2 /\ apart)
        /\ (valid = "False") =>
             msg = (IF ~in1 THEN MsgOff1 ELSE IF ~in2 THEN MsgOff2 ELSE MsgCollision)

\* ----------------------------------------------------------------- C3
\* C3: no command is ever sent to a robot of a scenario whose validation
\* returned failure.
C3_NoDispatchAfterFailedValidation ==
  (valid = "False") => (log = <<>>)

\* ----------------------------------------------------------------- C4
\* C4: for every position a planned trajectory holds and the table of the
\* file, is_on_table is true exactly when 0 <= x <= width and
\* 0 <= y <= height, both ends included.
C4_OnTableIffInclusive ==
  Validated =>
    \A k \in 1..Len(vplan1.pos), m \in 1..Len(vplan2.pos) :
      /\ is_on_table(vplan1.pos[k], file.tableSize) <=> InBounds(vplan1.pos[k], file.tableSize)
      /\ is_on_table(vplan2.pos[m], file.tableSize) <=> InBounds(vplan2.pos[m], file.tableSize)

\* The robot at (0,0) facing S has moved once to (0,-1), which is_on_table
\* reports off the 5 x 5 table, so that the validation failed on robot 1.
C4_Witness ==
  /\ Validated
  /\ file = SouthFile
  /\ vplan1.pos = << <<0, 0>>, <<0, -1>> >>
  /\ ~is_on_table(vplan1.pos[2], file.tableSize)
  /\ is_on_table(vplan1.pos[1], file.tableSize)
  /\ msg = MsgOff1

\* --------------------------------------------- planned and live trajectories
OriOfChar(ch) ==
  CASE ch = "N" -> OriN [] ch = "E" -> OriE [] ch = "S" -> OriS [] ch = "W" -> OriW

\* N->W, W->S, S->E, E->N
LeftOf(o) ==
  CASE o = OriN -> OriW [] o = OriW -> OriS [] o = OriS -> OriE [] o = OriE -> OriN

\* N->E, E->S, S->W, W->N
RightOf(o) ==
  CASE o = OriN -> OriE [] o = OriE -> OriS [] o = OriS -> OriW [] o = OriW -> OriN

\* The transition rule of a command on a pose.
StepRule(pose, c) ==
  IF c = "L" THEN [pos |-> pose.pos, ori |-> LeftOf(pose.ori)]
  ELSE IF c = "R" THEN [pos |-> pose.pos, ori |-> RightOf(pose.ori)]
  ELSE [pos |-> <<pose.pos[1] + pose.ori[1], pose.pos[2] + pose.ori[2]>>, ori |-> pose.ori]

PoseAt(t, k) == [pos |-> t.pos[k], ori |-> t.ori[k]]

\* The plan_traj calls whose results the state holds, each with its arguments.
PlanCalls ==
  (IF vplan1 # NoTraj
     THEN { [pos0 |-> <<file.start1[1], file.start1[2]>>, ori0 |-> OriOfChar(file.start1[3]),
             cmd |-> file.cmd1, out |-> vplan1],
            [pos0 |-> <<file.start2[1], file.start2[2]>>, ori0 |-> OriOfChar(file.start2[3]),
             cmd |-> file.cmd2, out |-> vplan2] }
     ELSE {})
  \cup
  (IF plan1 # NoTraj
     THEN { [pos0 |-> MainStart1(block).pos, ori0 |-> MainStart1(block).ori,
             cmd |-> ctrl.cmd1, out |-> plan1],
            [pos0 |-> MainStart2(block).pos, ori0 |-> MainStart2(block).ori,
             cmd |-> ctrl.cmd2, out |-> plan2] }
     ELSE {})

\* This step is a receive_cmd(c) call on robot r.
Delivered(r, c) == log' = Append(log, <<r, c>>)

\* The commands robot r has received so far, in order.
CmdsOf(r) ==
  LET sel == SelectSeq(log, LAMBDA e : e[1] = r)
  IN  [k \in 1..Len(sel) |-> sel[k][2]]

\* ----------------------------------------------------------------- C5
\* C5: plan_traj returns len(commands)+1 poses, the first being the start
\* pose and each next one the transition rule of the command applied to the
\* one before it.
C5_TrajectoryShape ==
  \A call \in PlanCalls :
    /\ Len(call.out.pos) = Len(call.cmd) + 1
    /\ Len(call.out.ori) = Len(call.cmd) + 1
    /\ call.out.pos[1] = call.pos0
    /\ call.out.ori[1] = call.ori0
    /\ \A k \in 1..Len(call.cmd) :
         PoseAt(call.out, k + 1) = StepRule(PoseAt(call.out, k), call.cmd[k])

\* A block has planned an empty command line (one pose) and a full one.
C5_Witness ==
  /\ pc = "end"
  /\ plan1 # NoTraj
  /\ ctrl.cmd1 = <<>>
  /\ plan1.pos = << MainStart1(block).pos >>
  /\ Len(ctrl.cmd2) = MaxLen
  /\ Len(plan2.pos) = MaxLen + 1
  /\ Len(vplan2.ori) = MaxLen + 1

\* ----------------------------------------------------------------- C6
\* C6: in every planned trajectory a step on L turns N->W, W->S, S->E, E->N
\* and a step on R turns N->E, E->S, S->W, W->N.
C6_PlanRotates ==
  \A call \in PlanCalls : \A k \in 1..Len(call.cmd) :
    /\ call.cmd[k] = "L" => call.out.ori[k + 1] = LeftOf(call.out.ori[k])
    /\ call.cmd[k] = "R" => call.out.ori[k + 1] = RightOf(call.out.ori[k])

\* C6: a receive_cmd of L or R turns the robot that receives it the same way.
C6_SessionRotates ==
  /\ Delivered(1, "L") => robot1'.ori = LeftOf(robot1.ori)
  /\ Delivered(1, "R") => robot1'.ori = RightOf(robot1.ori)
  /\ Delivered(2, "L") => robot2'.ori = LeftOf(robot2.ori)
  /\ Delivered(2, "R") => robot2'.ori = RightOf(robot2.ori)

\* C6: L maps N->W, W->S, S->E, E->N and R maps N->E, E->S, S->W, W->N, in
\* plan_traj and in Robot.rotate alike.
C6_Rotations == []C6_PlanRotates /\ [][C6_SessionRotates]_vars

\* Robot 1 has turned left from N to W and robot 2 right from N to E, as planned.
C6_Witness ==
  /\ Validated
  /\ file.cmd1 = <<"L">>
  /\ file.cmd2 = <<"R">>
  /\ log = << <<1, "L">>, <<2, "R">> >>
  /\ file.start1[3] = "N"
  /\ file.start2[3] = "E"
  /\ robot1.ori = OriW
  /\ robot2.ori = OriS
  /\ vplan1.ori[2] = OriW
  /\ vplan2.ori[2] = OriS

\* ----------------------------------------------------------------- C7
OneStep(p, q) ==
  \/ q[2] = p[2] /\ (q[1] = p[1] + 1 \/ q[1] = p[1] - 1)
  \/ q[1] = p[1] /\ (q[2] = p[2] + 1 \/ q[2] = p[2] - 1)

\* C7: in every planned trajectory a rotation keeps the position, and a Move
\* keeps the orientation and adds it to the position.
C7_PlanFrames ==
  \A call \in PlanCalls : \A k \in 1..Len(call.cmd) :
    /\ call.cmd[k] \in {"L", "R"} => call.out.pos[k + 1] = call.out.pos[k]
    /\ call.cmd[k] = "M" =>
         /\ call.out.ori[k + 1] = call.out.ori[k]
         /\ call.out.pos[k + 1] = << call.out.pos[k][1] + call.out.ori[k][1],
                                     call.out.pos[k][2] + call.out.ori[k][2] >>
         /\ OneStep(call.out.pos[k], call.out.pos[k + 1])

\* C7: the same of a robot that receives the command.
C7_SessionFrames ==
  /\ \A c \in {"L", "R"} :
       /\ Delivered(1, c) => robot1'.pos = robot1.pos
       /\ Delivered(2, c) => robot2'.pos = robot2.pos
  /\ Delivered(1, "M") =>
       /\ robot1'.ori = robot1.ori
       /\ robot1'.pos = <<robot1.pos[1] + robot1.ori[1], robot1.pos[2] + robot1.ori[2]>>
       /\ OneStep(robot1.pos, robot1'.pos)
  /\ Delivered(2, "M") =>
       /\ robot2'.ori = robot2.ori
       /\ robot2'.pos = <<robot2.pos[1] + robot2.ori[1], robot2.pos[2] + robot2.ori[2]>>
       /\ OneStep(robot2.pos, robot2'.pos)

\* C7: L and R leave the position unchanged, M leaves the orientation
\* unchanged and moves the position by exactly the orientation vector, in
\* plan_traj and in the Robot session alike.
C7_Frames == []C7_PlanFrames /\ [][C7_SessionFrames]_vars

\* Robot 1 has moved one cell along its orientation, robot 2 has turned in place.
C7_Witness ==
  /\ Validated
  /\ file.cmd1 = <<"M">>
  /\ file.cmd2 = <<"L">>
  /\ log = << <<1, "M">>, <<2, "L">> >>
  /\ robot1.ori = Robot(file.start1).ori
  /\ OneStep(Robot(file.start1).pos, robot1.pos)
  /\ robot2.pos = Robot(file.start2).pos
  /\ robot2.ori # Robot(file.start2).ori
  /\ vplan1.pos[2] = robot1.pos

\* ----------------------------------------------------------------- C8
\* C8: after its k-th receive_cmd a robot holds element k of the trajectory
\* planned from its start pose and its command line, and when send_command
\* has returned it holds the last element, whatever the two lengths.
C8_SessionFollowsPlan ==
  (pc \in {"send", "plan"}) =>
    LET t1 == plan_traj(<<file.start1[1], file.start1[2]>>, OriOfChar(file.start1[3]), ctrl.cmd1)
        t2 == plan_traj(<<file.start2[1], file.start2[2]>>, OriOfChar(file.start2[3]), ctrl.cmd2)
        k1 == Len(CmdsOf(1))
        k2 == Len(CmdsOf(2))
    IN  /\ k1 <= Len(ctrl.cmd1) /\ robot1 = PoseAt(t1, k1 + 1)
        /\ k2 <= Len(ctrl.cmd2) /\ robot2 = PoseAt(t2, k2 + 1)
        /\ pc = "plan" => /\ robot1 = PoseAt(t1, Len(ctrl.cmd1) + 1)
                          /\ robot2 = PoseAt(t2, Len(ctrl.cmd2) + 1)

\* ----------------------------------------------------------------- C9
\* C9: from (1,2) facing N the commands L,M,L,M,L,M,L,M,M end at (1,3) facing
\* N and never leave the 5 x 5 table: of the trajectory is_input_valid plans
\* from the reference file, of the one block 1 plans for plotting, and of
\* robot 1 once it has received exactly these commands.
C9_ReferenceScenario ==
  /\ (Validated /\ file = RefFile) =>
       /\ PoseAt(vplan1, Len(vplan1.pos)) = [pos |-> <<1, 3>>, ori |-> OriN]
       /\ \A k \in 1..Len(vplan1.pos) : InBounds(vplan1.pos[k], <<5, 5>>)
  /\ (plan1 # NoTraj /\ block = 1 /\ ctrl.cmd1 = RefCmd1) =>
       /\ PoseAt(plan1, Len(plan1.pos)) = [pos |-> <<1, 3>>, ori |-> OriN]
       /\ \A k \in 1..Len(plan1.pos) : InBounds(plan1.pos[k], <<5, 5>>)
  /\ (file = RefFile /\ CmdsOf(1) = RefCmd1) =>
       robot1 = [pos |-> <<1, 3>>, ori |-> OriN]

\* Block 1 has run the reference file to its end.
C9_Witness ==
  /\ pc = "end"
  /\ block = 1
  /\ file = RefFile
  /\ valid = "True"
  /\ Len(plan1.pos) = 10
  /\ plan1.pos[10] = <<1, 3>>
  /\ vplan1.ori[10] = OriN
  /\ CmdsOf(1) = RefCmd1
  /\ robot1.pos = <<1, 3>>

\* ----------------------------------------------------------------- C10
\* C10: R then L, and L then R, give back the orientation and leave the
\* position: of any two such neighbouring steps of a planned trajectory, and
\* of Robot.rotate applied twice to any pose a robot reaches.
C10_RotationsInverse ==
  /\ \A call \in PlanCalls : \A k \in 1..(Len(call.cmd) - 1) :
       ({call.cmd[k], call.cmd[k + 1]} = {"L", "R"}) =>
          PoseAt(call.out, k + 2) = PoseAt(call.out, k)
  /\ \A r \in {robot1, robot2} :
       r # NoRobot =>
          /\ receive_cmd(receive_cmd(r, "R"), "L") = r
          /\ receive_cmd(receive_cmd(r, "L"), "R") = r

\* Robot 1 has received R then L and robot 2 L then R, and both are back at
\* their start poses, having turned away in between.
C10_Witness ==
  /\ Validated
  /\ pc = "plan"
  /\ ctrl.cmd1 = <<"R", "L">>
  /\ ctrl.cmd2 = <<"L", "R">>
  /\ Len(log) = 4
  /\ robot1 = Robot(file.start1)
  /\ robot2 = Robot(file.start2)
  /\ vplan1.ori[2] # vplan1.ori[1]
  /\ vplan1.ori[3] = vplan1.ori[1]

\* ----------------------------------------------------------------- C11
\* Commands k .. k+n-1 of a command line are all c.
RunOf(cmd, k, n, c) == k + n - 1 <= Len(cmd) /\ \A j \in 0..(n - 1) : cmd[k + j] = c

Robots == {robot1, robot2} \ {NoRobot}

\* C11: a run of one to four equal rotations brings the pose back exactly
\* when it is four long: of every such run in a planned trajectory, and of
\* receive_cmd repeated on any pose a robot reaches.
C11_RotationOrderFour ==
  /\ \A call \in PlanCalls : \A k \in 1..Len(call.cmd) :
       call.cmd[k] \in {"L", "R"} =>
         \A n \in 1..4 :
           RunOf(call.cmd, k, n, call.cmd[k]) =>
             ((PoseAt(call.out, k + n) = PoseAt(call.out, k)) <=> (n = 4))
  /\ \A r \in Robots : \A c \in {"L", "R"} :
       LET r1 == receive_cmd(r, c)
           r2 == receive_cmd(r1, c)
           r3 == receive_cmd(r2, c)
           r4 == receive_cmd(r3, c)
       IN  r1 # r /\ r2 # r /\ r3 # r /\ r4 = r

\* Robot 1 has received L four times and robot 2 R four times; both are back
\* at their start poses, which they had left after two turns.
C11_Witness ==
  /\ Validated
  /\ pc = "plan"
  /\ file = SpinFile
  /\ CmdsOf(1) = <<"L", "L", "L", "L">>
  /\ CmdsOf(2) = <<"R", "R", "R", "R">>
  /\ robot1 = Robot(file.start1)
  /\ robot2 = Robot(file.start2)
  /\ PoseAt(vplan1, 5) = PoseAt(vplan1, 1)
  /\ PoseAt(vplan1, 3) # PoseAt(vplan1, 1)

\* ----------------------------------------------------------------- C12
Neg(v) == <<0 - v[1], 0 - v[2]>>

\* C12: M, L, L, M and M, R, R, M end at the position they started from,
\* facing the opposite way: of every such run in a planned trajectory, and of
\* receive_cmd applied in that order to any pose a robot reaches.
C12_OutAndBack ==
  \A c \in {"L", "R"} :
    /\ \A call \in PlanCalls : \A k \in 1..Len(call.cmd) :
         (k + 3 <= Len(call.cmd) /\ call.cmd[k] = "M" /\ call.cmd[k + 1] = c
            /\ call.cmd[k + 2] = c /\ call.cmd[k + 3] = "M") =>
           /\ call.out.pos[k + 4] = call.out.pos[k]
           /\ call.out.ori[k + 4] = Neg(call.out.ori[k])
    /\ \A r \in Robots :
         LET back == receive_cmd(receive_cmd(receive_cmd(receive_cmd(r, "M"), c), c), "M")
         IN  back.pos = r.pos /\ back.ori = Neg(r.ori)

\* Robot 1 has received M, L, L, M and robot 2 M, R, R, M; both are back at
\* their start cells, turned around, after one step away.
C12_Witness ==
  /\ Validated
  /\ pc = "plan"
  /\ file = BackFile
  /\ CmdsOf(1) = <<"M", "L", "L", "M">>
  /\ CmdsOf(2) = <<"M", "R", "R", "M">>
  /\ robot1.pos = Robot(file.start1).pos
  /\ robot1.ori = Neg(Robot(file.start1).ori)
  /\ robot2.pos = Robot(file.start2).pos
  /\ robot2.ori = Neg(Robot(file.start2).ori)
  /\ vplan1.pos[2] # vplan1.pos[1]
  /\ vplan1.pos[5] = vplan1.pos[1]

\* ----------------------------------------------------------------- C13
\* C13: orichar2vec fails with InvalidOrientationError on every character
\* other than N, E, S, W, and orivec2char on every vector other than the four
\* unit vectors; neither returns normally then.
C13_InvalidOrientationRejected ==
  /\ (probe.fn = "orichar2vec" /\ probe.arg \notin {"N", "E", "S", "W"}) =>
       probe.outcome = "InvalidOrientationError"
  /\ (probe.fn = "orivec2char" /\ probe.arg \notin {OriN, OriE, OriS, OriW}) =>
       probe.outcome = "InvalidOrientationError"

\* ----------------------------------------------------------------- C14
\* C14: the codec round-trips: the letter orivec2char returns for one of the
\* four unit vectors decodes to that vector, and the vector orichar2vec
\* returns for one of N, E, S, W encodes to that letter.
C14_CodecRoundTrip ==
  /\ (probe.fn = "orivec2char" /\ probe.arg \in {OriN, OriE, OriS, OriW}) =>
       orichar2vec(probe.value) = probe.arg
  /\ (probe.fn = "orichar2vec" /\ probe.arg \in {"N", "E", "S", "W"}) =>
       orivec2char(probe.value) = probe.arg

\* orivec2char has been called on (-1,0) and has returned W.
C14_Witness ==
  /\ probe.fn = "orivec2char"
  /\ probe.arg = OriW
  /\ probe.value = "W"
  /\ orichar2vec(probe.value) = OriW

\* ----------------------------------------------------------------- C15
Units == {OriN, OriE, OriS, OriW}

\* C15: every orientation a robot holds and every orientation entry of a
\* planned trajectory is one of (0,1), (1,0), (0,-1), (-1,0).
C15_OrientationIsUnit ==
  /\ \A r \in Robots : r.ori \in Units
  /\ \A call \in PlanCalls : \A k \in 1..Len(call.out.ori) : call.out.ori[k] \in Units

\* Both robots have turned twice and face the opposite of their start.
C15_Witness ==
  /\ Validated
  /\ pc = "plan"
  /\ Len(log) = 4
  /\ file.start1[3] = "N"
  /\ file.start2[3] = "E"
  /\ file.cmd1 = <<"L", "L">>
  /\ file.cmd2 = <<"R", "R">>
  /\ robot1.ori = OriS
  /\ robot2.ori = OriW
  /\ vplan1.ori[3] = OriS

\* ----------------------------------------------------------------- C16
Plus(p, v) == <<p[1] + v[1], p[2] + v[2]>>

\* C16: every planned trajectory is complete, and a step that is not a
\* rotation and leads off the table is recorded where it leads.
C16_PlanNeverClamps ==
  \A call \in PlanCalls :
    /\ Len(call.out.pos) = Len(call.cmd) + 1
    /\ \A k \in 1..Len(call.cmd) :
         (call.cmd[k] \notin {"L", "R"}
            /\ ~InBounds(Plus(call.out.pos[k], call.out.ori[k]), file.tableSize)) =>
           call.out.pos[k + 1] = Plus(call.out.pos[k], call.out.ori[k])

\* C16: a robot told to move off the table stands off the table afterwards.
C16_SessionNeverClamps ==
  \A c \in (Garbage \cup Tokens) \ {"L", "R"} :
    /\ (Delivered(1, c) /\ ~InBounds(Plus(robot1.pos, robot1.ori), ctrl.tableSize)) =>
         robot1'.pos = Plus(robot1.pos, robot1.ori)
    /\ (Delivered(2, c) /\ ~InBounds(Plus(robot2.pos, robot2.ori), ctrl.tableSize)) =>
         robot2'.pos = Plus(robot2.pos, robot2.ori)

\* C16: neither plan_traj nor Robot.move clamps, skips or rejects a Move that
\* leaves the table; plan_traj always returns the full trajectory.
C16_NeverClamps == []C16_PlanNeverClamps /\ [][C16_SessionNeverClamps]_vars

\* Block 3 has sent M, M to robot 1 at (0,0) facing S, which now stands at
\* (0,-2), and has planned a full trajectory that lies off the table.
C16_Witness ==
  /\ pc = "end"
  /\ block = 3
  /\ valid = "False"
  /\ file.start1 = <<0, 0, "S">>
  /\ ctrl.cmd1 = <<"M", "M">>
  /\ Len(ctrl.cmd2) = 2
  /\ robot1.pos = <<0, -2>>
  /\ Len(plan2.pos) = 3
  /\ ~InBounds(plan2.pos[3], file.tableSize)

\* ----------------------------------------------------------------- C17
\* The index (from 0, as the rows of the trajectory array) of the first
\* position of pos that lies off the table t.
FirstOff(pos, t) ==
  (CHOOSE k \in 1..Len(pos) :
     /\ ~InBounds(pos[k], t)
     /\ \A j \in 1..(k - 1) : InBounds(pos[j], t)) - 1

LeavesTable(pos, t) == \E k \in 1..Len(pos) : ~InBounds(pos[k], t)

\* C17: when validation fails because a trajectory leaves the table, the
\* failure names the offending robot and the index of the first position off
\* the table.
C17_FailureNamesRobotAndStep ==
  (Validated /\ valid = "False" /\ msg \in {MsgOff1, MsgOff2}) =>
    LET r == IF LeavesTable(vplan1.pos, file.tableSize) THEN 1 ELSE 2
        tr == IF r = 1 THEN vplan1 ELSE vplan2
    IN  /\ "robot" \in DOMAIN Report(msg)
        /\ Report(msg).robot = r
        /\ "step" \in DOMAIN Report(msg)
        /\ Report(msg).step = FirstOff(tr.pos, file.tableSize)

\* ----------------------------------------------------------------- C18
\* The deliveries of the first n rounds of a dispatch that hands out the
\* lines c1 and c2 in turn, robot 1 first, and skips an exhausted line.
RECURSIVE Interleave(_, _, _)
Interleave(c1, c2, n) ==
  IF n = 0 THEN <<>>
  ELSE Interleave(c1, c2, n - 1)
         \o (IF n <= Len(c1) THEN << <<1, c1[n]>> >> ELSE <<>>)
         \o (IF n <= Len(c2) THEN << <<2, c2[n]>> >> ELSE <<>>)

\* C18: during send_command the deliveries so far are the two command lines
\* taken in turn, robot 1's i-th before robot 2's i-th before robot 1's
\* (i+1)-th, each command once, and nothing for a robot whose line is over.
C18_DispatchOrder ==
  (pc = "send" /\ ctrl # NoCtrl) =>
    log = Interleave(ctrl.cmd1, ctrl.cmd2, i)
            \o (IF turn = 2 /\ i + 1 <= Len(ctrl.cmd1)
                  THEN << <<1, ctrl.cmd1[i + 1]>> >> ELSE <<>>)

\* ----------------------------------------------------------------- C19
\* C19: after validation has passed, at every point of the dispatch (also
\* between robot 1's and robot 2's command of a round) both robots stand on
\* the table and on different cells.
C19_SafeDuringDispatch ==
  (Validated /\ valid = "True" /\ pc \in {"send", "plan"}) =>
    /\ InBounds(robot1.pos, ctrl.tableSize)
    /\ InBounds(robot2.pos, ctrl.tableSize)
    /\ robot1.pos # robot2.pos

\* ----------------------------------------------------------------- C20
Range(q) == {q[k] : k \in 1..Len(q)}

\* The characters send_command can hand to a robot.
Deliverable == Garbage \cup {U1(t) : t \in Range(ctrl.cmd1) \cup Range(ctrl.cmd2)}

\* C20: plan_traj takes every command that is neither L nor R for a Move,
\* and is_cmdin_valid accepts every command line.
C20_PlanMovesOnUnknown ==
  /\ \A call \in PlanCalls : \A k \in 1..Len(call.cmd) :
       call.cmd[k] \notin {"L", "R"} =>
         /\ call.out.pos[k + 1] = Plus(call.out.pos[k], call.out.ori[k])
         /\ call.out.ori[k + 1] = call.out.ori[k]
  /\ file # NoFile => is_cmdin_valid(file.cmd1) /\ is_cmdin_valid(file.cmd2)

\* C20: a robot that receives a command that is neither L nor R moves one
\* cell ahead, and receive_cmd returns True.
C20_RobotMovesOnUnknown ==
  \A c \in Deliverable \ {"L", "R"} :
    /\ Delivered(1, c) =>
         /\ robot1' = [pos |-> Plus(robot1.pos, robot1.ori), ori |-> robot1.ori]
         /\ receive_cmd_ret(robot1, c)
    /\ Delivered(2, c) =>
         /\ robot2' = [pos |-> Plus(robot2.pos, robot2.ori), ori |-> robot2.ori]
         /\ receive_cmd_ret(robot2, c)

\* C20: commands outside L, R, M are never rejected: plan_traj and
\* receive_cmd treat them as Move, receive_cmd returns True, and
\* is_cmdin_valid accepts every input.
C20_UnknownCommandsMove == []C20_PlanMovesOnUnknown /\ [][C20_RobotMovesOnUnknown]_vars

\* The commands X and m have been planned as moves and delivered, and have
\* moved robot 1 from (0,0) to (1,0) and robot 2 from (1,1) to (1,0).
C20_Witness ==
  /\ file = OddFile
  /\ Validated
  /\ valid = "True"
  /\ log = << <<1, "X">>, <<2, "m">> >>
  /\ robot1.pos = <<1, 0>>
  /\ robot2.pos = <<1, 0>>
  /\ vplan1.pos = << <<0, 0>>, <<1, 0>>, <<2, 0>> >>

====
